---- MODULE Spec2Model ----
(***************************************************************************)
(* Model of the DarkDrop backend job orchestration (backend/src/index.ts): *)
(* the in-memory job map, the per-job yt-dlp process callbacks, the        *)
(* settling timer, the retention sweep and the progress query.             *)
(***************************************************************************)
EXTENDS Integers, Sequences, FiniteSets, TLC

\* ---------------------------------------------------------------- bounds
MaxJobs == 2
MaxTicks == 14
MaxSubmitTicks == 0
MaxInFlight == 2

\* ------------------------------------------------------------- constants
JOB_CLEANUP_TIME == 60 * 60 * 1000
SWEEP_PERIOD == 10 * 60 * 1000
\* granularity of the modelled clock: half a sweep period
TickMs == SWEEP_PERIOD \div 2

JobIds == 1..MaxJobs
NoJob == [status |-> "absent"]
\* null and undefined where a file name is expected, undefined elsewhere
NULL == [null |-> TRUE]
NotFound == [undefined |-> TRUE]
Undefined == "undefined"

\* file names `${jobId}.${ext}` written by the external tool
Exts == {"mp4"}
FileNames == [id : JobIds, ext : Exts]
startsWith(f, jobId) == f.id = jobId

\* percentages the external tool prints (lines matching /(\d+\.\d+)%/)
Percents == {0, 50}
\* one chunk of the tool's standard output: a progress line or other text
Lines == [kind : {"progress"}, pct : Percents] \cup {[kind |-> "log"]}
\* line.match(/(\d+\.\d+)%/) followed by parseFloat(match[1]): the set of
\* the parsed value, empty when the line does not match
ParseProgress(line) == IF line.kind = "progress" THEN {line.pct} ELSE {}

\* request bodies of POST /api/media/download
Urls == {Undefined, "not a url", "ftp://host/v", "http://host/v", "https://host/v"}
FormatIds == {Undefined, "best"}
Types == {Undefined, "video", "audio", "image"}
\* new URL(url).protocol, or "throws" when the constructor throws
UrlProtocol(url) ==
    CASE url = "ftp://host/v" -> "ftp:"
      [] url = "http://host/v" -> "http:"
      [] url = "https://host/v" -> "https:"
      [] OTHER -> "throws"
isValidUrl(url) == UrlProtocol(url) \in {"http:", "https:"}

VARIABLES
    alive,      \* the server process is running (no uncaught exception yet)
    now,        \* Date.now(), in ms since server start
    nextSweep,  \* time at which the setInterval callback fires next
    jobs,       \* the jobs map: job id -> Job or NoJob
    downloads,  \* names of the files in DOWNLOAD_DIR
    proc,       \* per job: position of its yt-dlp process / callbacks
    pollJob,    \* client: the job_id given to pollProgress
    interval,   \* client: the setInterval timer of pollProgress is active
    promise,    \* client: state of the promise pollProgress returned
    requests,   \* client: the get-progress requests and their answers in flight
    shown       \* client: status of the last answer handed to onProgress

\* the state of the browser client (frontend/src/lib/api.ts)
client == <<pollJob, interval, promise, requests, shown>>

vars == <<alive, now, nextSweep, jobs, downloads, proc, client>>

\* positions of a job's process and of its callbacks: not spawned; running;
\* exited, 'close' queued; launch failed, 'error' queued; 'error' delivered,
\* 'close' queued; settling timer pending; settling callback ended after a
\* scan / after readdirSync threw; 'close' delivered with nothing left to
\* run; 'close' delivered when the record was gone (return on line 348)
ProcStates == {"none", "running", "exited", "failed", "errored",
               "settling", "settled", "scanfailed", "done", "returned"}

\* bound on the get-progress requests of one pollProgress call in flight
\* (MaxInFlight is a bound of the model)
RequestSlots == 1..MaxInFlight
\* a request slot: unused; request sent; answered with a response; failed
\* without a response (network error, timeout)
Free == [st |-> "free"]
Sent == [st |-> "sent"]
Failed == [st |-> "failed"]
\* pollProgress has not been called
NoPoll == [job_id |-> Undefined]

\* The server is up.  Once an uncaught exception has ended it, nothing of the
\* model moves any more: the state is the one the server left behind.
Ready == alive

Init ==
    /\ alive = TRUE
    /\ now = 0
    /\ nextSweep = SWEEP_PERIOD
    /\ jobs = [j \in JobIds |-> NoJob]
    /\ downloads = {}
    /\ proc = [j \in JobIds |-> "none"]
    /\ pollJob = NoPoll
    /\ interval = FALSE
    /\ promise = "none"
    /\ requests = [r \in RequestSlots |-> Free]
    /\ shown = "none"

\* mutant of FreshIds: ids are not unique, a new job may take a used id
FreshIdsReused == JobIds

\* uuid(): an id that was never handed out before
FreshIds == {j \in JobIds : proc[j] = "none" /\ \A k \in JobIds : k < j => proc[k] # "none"}

\* mutant of Validate: the media type is not looked at
ValidateAnyType(url, format_id, type) ==
    IF url = Undefined \/ format_id = Undefined
    THEN [code |-> 400, success |-> FALSE, error |-> "Missing required fields"]
    ELSE IF ~isValidUrl(url)
    THEN [code |-> 400, success |-> FALSE, error |-> "Invalid URL format"]
    ELSE [code |-> 200, success |-> TRUE]

\* POST /api/media/download: the response of the validation (lines 253-266),
\* "ok" when the request passes it
Validate(url, format_id, type) ==
    IF url = Undefined \/ format_id = Undefined
    THEN [code |-> 400, success |-> FALSE, error |-> "Missing required fields"]
    ELSE IF ~isValidUrl(url)
    THEN [code |-> 400, success |-> FALSE, error |-> "Invalid URL format"]
    ELSE IF type # Undefined /\ type \notin {"video", "audio"}
    THEN [code |-> 400, success |-> FALSE, error |-> "Type must be 'video' or 'audio'"]
    ELSE [code |-> 200, success |-> TRUE]

\* the request bodies that the validation answers with the given code
Requests(code) ==
    {r \in [url : Urls, format_id : FormatIds, type : Types] :
        Validate(r.url, r.format_id, r.type).code = code}
\* the bodies that pass the validation, and those it rejects
AcceptedBodies == Requests(200)
RejectedBodies == Requests(400)

\* mutant of NewJob: the record starts in the unused status "pending"
NewJobPending(t) ==
    [status |-> "pending", progress |-> 0, file |-> NULL, error |-> Undefined,
     createdAt |-> t]

\* the record of a new job (lines 271-276)
NewJob(t) ==
    [status |-> "downloading", progress |-> 0, file |-> NULL, error |-> Undefined,
     createdAt |-> t]

\* POST /api/media/download (lines 253-383) for one request body: a rejected
\* request returns before the job is created; for an accepted one spawn
\* either starts the process or fails to launch it (the 'error' event is
\* then queued)
Download(req) ==
    /\ Ready
    /\ IF Validate(req.url, req.format_id, req.type).code = 400
       THEN UNCHANGED vars
       ELSE /\ \E jobId \in FreshIds, spawned \in {"running", "failed"} :
                 /\ jobs' = [jobs EXCEPT ![jobId] = NewJob(now)]
                 /\ proc' = [proc EXCEPT ![jobId] = spawned]
            /\ UNCHANGED <<alive, now, nextSweep, downloads, client>>

\* POST /api/media/download with a body that the validation rejects: the
\* step Download(req) is the same for every such body
DownloadRejected ==
    /\ Ready
    /\ RejectedBodies # {}
    /\ UNCHANGED vars

\* POST /api/media/download with a body that passes the validation; jobs are
\* submitted during the first MaxSubmitTicks steps of the clock
DownloadAccepted ==
    /\ now <= MaxSubmitTicks * TickMs
    /\ \E req \in AcceptedBodies : Download(req)

\* the external tool writes `${jobId}.${ext}` into DOWNLOAD_DIR (-o outputTemplate)
ToolWritesFile(jobId) ==
    /\ Ready
    /\ proc[jobId] = "running"
    /\ \E ext \in Exts :
         /\ [id |-> jobId, ext |-> ext] \notin downloads
         /\ downloads' = downloads \cup {[id |-> jobId, ext |-> ext]}
    /\ UNCHANGED <<alive, now, nextSweep, jobs, proc>>
    /\ UNCHANGED client

\* the external tool terminates; its 'close' event is queued
ToolExits(jobId) ==
    /\ Ready
    /\ proc[jobId] = "running"
    /\ proc' = [proc EXCEPT ![jobId] = "exited"]
    /\ UNCHANGED <<alive, now, nextSweep, jobs, downloads>>
    /\ UNCHANGED client

\* mutant of UpdateProgress: the update rewrites the status with the progress
UpdateProgressResetsStatus(job, line) ==
    LET match == ParseProgress(line) IN
    IF match # {}
    THEN [job EXCEPT !.progress = CHOOSE p \in match : TRUE, !.status = "downloading"]
    ELSE job

\* the record after one chunk of standard output (lines 324-328)
UpdateProgress(job, line) ==
    LET match == ParseProgress(line) IN
    IF match # {} THEN [job EXCEPT !.progress = CHOOSE p \in match : TRUE] ELSE job

\* mutant of OnStdoutData: the listener writes the progress to every record
OnStdoutDataShared(jobId) ==
    /\ Ready
    /\ proc[jobId] \in {"running", "exited"}
    /\ \E line \in Lines :
         jobs' = [j \in JobIds |->
                    IF jobs[j] # NoJob THEN UpdateProgress(jobs[j], line) ELSE jobs[j]]
    /\ UNCHANGED <<alive, now, nextSweep, downloads, proc>>
    /\ UNCHANGED client

\* ytdlp.stdout.on("data") (lines 323-329): the stream delivers data until it
\* is closed, that is before the 'close' event
OnStdoutData(jobId) ==
    /\ Ready
    /\ proc[jobId] \in {"running", "exited"}
    /\ \E line \in Lines :
         jobs' = IF jobs[jobId] # NoJob
                 THEN [jobs EXCEPT ![jobId] = UpdateProgress(jobs[jobId], line)]
                 ELSE jobs
    /\ UNCHANGED <<alive, now, nextSweep, downloads, proc>>
    /\ UNCHANGED client

\* the record after the 'error' listener (lines 342-343)
LaunchFailed(job) ==
    [job EXCEPT !.status = "error", !.error = "Download process failed"]

\* ytdlp.on("error") (lines 339-345): the process could not be launched
OnError(jobId) ==
    /\ Ready
    /\ proc[jobId] = "failed"
    /\ jobs' = IF jobs[jobId] # NoJob
               THEN [jobs EXCEPT ![jobId] = LaunchFailed(jobs[jobId])]
               ELSE jobs
    /\ proc' = [proc EXCEPT ![jobId] = "errored"]
    /\ UNCHANGED <<alive, now, nextSweep, downloads>>
    /\ UNCHANGED client

\* the codes the 'close' listener may be handed: the exit code of the tool (0
\* or a failure code), or the negative errno Node passes after a failed launch
CloseCodes(jobId) == IF proc[jobId] = "exited" THEN {0, 1} ELSE {0 - 2}

\* mutant of Closed: a non-zero code records the reason but not the status
ClosedKeepsStatus(job, code) ==
    IF code # 0 THEN [job EXCEPT !.error = "Download failed"] ELSE job

\* the record after the synchronous part of the 'close' listener (lines 350-354)
Closed(job, code) ==
    IF code # 0
    THEN [job EXCEPT !.status = "error", !.error = "Download failed"]
    ELSE job

\* ytdlp.on("close") (lines 347-380), up to and including the setTimeout call
OnClose(jobId) ==
    /\ Ready
    /\ proc[jobId] \in {"exited", "errored"}
    /\ \E code \in CloseCodes(jobId) :
       IF jobs[jobId] = NoJob
       THEN /\ proc' = [proc EXCEPT ![jobId] = "returned"]
            /\ jobs' = jobs
       ELSE /\ jobs' = [jobs EXCEPT ![jobId] = Closed(jobs[jobId], code)]
            /\ proc' = [proc EXCEPT ![jobId] = IF code # 0 THEN "done" ELSE "settling"]
    /\ UNCHANGED <<alive, now, nextSweep, downloads>>
    /\ UNCHANGED client

\* files.find((f) => f.startsWith(jobId)): readdirSync gives no order, so any
\* file with the prefix may be the one found; undefined when there is none
FoundFiles(jobId) ==
    LET hits == {f \in downloads : startsWith(f, jobId)} IN
    IF hits = {} THEN {NotFound} ELSE hits

\* mutant of Finalize: the progress is left as the output lines set it
FinalizeKeepsProgress(job, file) ==
    LET done == [job EXCEPT !.status = "completed",
                            !.file = IF file = NotFound THEN NULL ELSE file] IN
    IF file = NotFound
    THEN [done EXCEPT !.status = "error", !.error = "File not found after download"]
    ELSE done

\* mutant of Finalize: the check for a missing file is left out
FinalizeUnchecked(job, file) ==
    [job EXCEPT !.status = "completed", !.progress = 100,
                !.file = IF file = NotFound THEN NULL ELSE file]

\* the record after the try block of the settling callback (lines 362-371)
Finalize(job, file) ==
    LET done == [job EXCEPT !.status = "completed", !.progress = 100,
                            !.file = IF file = NotFound THEN NULL ELSE file] IN
    IF file = NotFound
    THEN [done EXCEPT !.status = "error", !.error = "File not found after download"]
    ELSE done

\* mutant of LocateFailed: the catch block records the reason only
LocateFailedKeepsStatus(job) ==
    [job EXCEPT !.error = "Failed to locate downloaded file"]

\* the record after the catch block of the settling callback (lines 374-377)
LocateFailed(job) ==
    [job EXCEPT !.status = "error", !.error = "Failed to locate downloaded file"]

\* mutant of SettleTimer: the callback writes to jobs[jobId] without testing
\* it, in the try block and in the catch block
SettleTimerUnguarded(jobId) ==
    /\ Ready
    /\ proc[jobId] = "settling"
    /\ proc' = [proc EXCEPT ![jobId] = "settled"]
    /\ IF jobs[jobId] = NoJob
       THEN alive' = FALSE /\ jobs' = jobs
       ELSE /\ alive' = alive
            /\ \E file \in FoundFiles(jobId) :
                 jobs' = [jobs EXCEPT ![jobId] = Finalize(jobs[jobId], file)]
    /\ UNCHANGED <<now, nextSweep, downloads>>
    /\ UNCHANGED client

\* the setTimeout callback of the 'close' listener (lines 357-379);
\* readdirSync either lists the directory ("settled") or throws ("scanfailed")
SettleTimer(jobId) ==
    /\ Ready
    /\ proc[jobId] = "settling"
    /\ \E readdirThrows \in BOOLEAN :
         IF readdirThrows
         THEN /\ proc' = [proc EXCEPT ![jobId] = "scanfailed"]
              /\ jobs' = IF jobs[jobId] # NoJob
                         THEN [jobs EXCEPT ![jobId] = LocateFailed(jobs[jobId])]
                         ELSE jobs
         ELSE /\ proc' = [proc EXCEPT ![jobId] = "settled"]
              /\ \E file \in FoundFiles(jobId) :
                   jobs' = IF jobs[jobId] # NoJob
                           THEN [jobs EXCEPT ![jobId] = Finalize(jobs[jobId], file)]
                           ELSE jobs
    /\ UNCHANGED <<alive, now, nextSweep, downloads>>
    /\ UNCHANGED client

\* mutant of Expired: the age test is not strict
ExpiredInclusive(job, t) == t - job.createdAt >= JOB_CLEANUP_TIME

\* a job the sweep removes (line 56)
Expired(job, t) == t - job.createdAt > JOB_CLEANUP_TIME

\* the forEach of the sweep from key jobId on (lines 52-63), keys in insertion
\* order; unlinkFails are the jobs whose unlinkSync throws.  The result is the
\* map and directory when the loop ends, and whether it ended by an exception.
RECURSIVE SweepFrom(_, _, _, _, _)
SweepFrom(jobId, js, dir, t, unlinkFails) ==
    IF jobId > MaxJobs THEN [jobs |-> js, downloads |-> dir, threw |-> FALSE]
    ELSE LET job == js[jobId] IN
         IF job = NoJob \/ ~Expired(job, t)
         THEN SweepFrom(jobId + 1, js, dir, t, unlinkFails)
         ELSE IF job.file # NULL /\ job.file \in dir /\ jobId \in unlinkFails
         THEN [jobs |-> js, downloads |-> dir, threw |-> TRUE]
         ELSE SweepFrom(jobId + 1, [js EXCEPT ![jobId] = NoJob],
                        IF job.file # NULL THEN dir \ {job.file} ELSE dir,
                        t, unlinkFails)

\* the jobs whose recorded file exists, so that unlinkSync is called on it
Unlinkable(t) ==
    {j \in JobIds : jobs[j] # NoJob /\ Expired(jobs[j], t)
                    /\ jobs[j].file # NULL /\ jobs[j].file \in downloads}

\* mutant of Sweep: the callback deletes the files and leaves the records
SweepKeepsRecords ==
    /\ alive
    /\ now = nextSweep
    /\ \E unlinkFails \in SUBSET Unlinkable(now) :
         LET r == SweepFrom(1, jobs, downloads, now, unlinkFails) IN
         /\ downloads' = r.downloads
         /\ alive' = ~r.threw
    /\ nextSweep' = nextSweep + SWEEP_PERIOD
    /\ UNCHANGED <<now, proc, jobs>>
    /\ UNCHANGED client

\* the setInterval callback (lines 50-64); an exception leaving it is
\* uncaught and ends the server process
Sweep ==
    /\ alive
    /\ now = nextSweep
    /\ \E unlinkFails \in SUBSET Unlinkable(now) :
         LET r == SweepFrom(1, jobs, downloads, now, unlinkFails) IN
         /\ jobs' = r.jobs
         /\ downloads' = r.downloads
         /\ alive' = ~r.threw
    /\ nextSweep' = nextSweep + SWEEP_PERIOD
    /\ UNCHANGED <<now, proc>>
    /\ UNCHANGED client

\* names that every plain object inherits from Object.prototype
InheritedKeys == {"constructor"}
\* the values of :jobId a caller may send: an id handed out by uuid(), or
\* any other string, here the name of an inherited member
ParamIds == [uuid : JobIds] \cup [inherited : InheritedKeys]
\* an inherited member read as a Job: truthy, and none of the fields of a
\* Job is defined on it
InheritedMember == [status |-> Undefined, progress |-> Undefined, error |-> Undefined]
\* jobs[jobId] (line 387): jobs is an object literal, so the lookup of a
\* name that is not an own key goes on to the prototype
Lookup(js, jobId) ==
    IF "uuid" \in DOMAIN jobId THEN js[jobId.uuid] ELSE InheritedMember

\* the body of the response of GET /api/media/progress/:jobId (lines 385-420)
Progress(job) ==
    IF job = NoJob
    THEN [code |-> 404, success |-> FALSE, error |-> "Job not found"]
    ELSE IF job.status = "completed"
    THEN [code |-> 200, success |-> TRUE, status |-> "completed", progress |-> 100,
          file_url |-> <<"http://localhost:3000/downloads/", job.file>>]
    ELSE IF job.status = "error"
    THEN [code |-> 200, success |-> FALSE, status |-> "error", progress |-> job.progress,
          error |-> IF job.error # Undefined THEN job.error ELSE "Unknown error"]
    ELSE [code |-> 200, success |-> TRUE, status |-> job.status, progress |-> job.progress]

\* GET /api/media/progress/:jobId: answers Progress(jobs[jobId]) and leaves
\* the job map as it is
GetProgress(jobId) ==
    /\ Ready
    /\ Progress(Lookup(jobs, jobId)).code \in {200, 404}
    /\ UNCHANGED vars

\* ------------------------ the browser client (frontend/src/lib/api.ts)
\* the state of the server
server == <<alive, now, nextSweep, jobs, downloads, proc>>

\* pollProgress(job_id, onProgress, pollInterval) (lines 207-213, 229-230):
\* creates the promise and starts the interval timer; job_id is an id that
\* startDownload returned
PollProgress ==
    /\ promise = "none"
    /\ \E job_id \in JobIds :
         /\ proc[job_id] # "none"
         /\ pollJob' = [job_id |-> job_id]
    /\ interval' = TRUE
    /\ promise' = "pending"
    /\ UNCHANGED <<server, requests, shown>>

\* the interval callback up to its await (lines 213-215): getProgress sends
\* GET /media/progress/:job_id, whether or not earlier requests are answered
PollTick(r) ==
    /\ interval
    /\ requests[r] = Free
    /\ requests' = [requests EXCEPT ![r] = Sent]
    /\ UNCHANGED <<server, pollJob, interval, promise, shown>>

\* the server answers a request of the client: the response of
\* GET /api/media/progress/:jobId for the record as it is now
Answer(r) ==
    /\ Ready
    /\ requests[r] = Sent
    /\ requests' = [requests EXCEPT ![r] =
                      [st |-> "answered",
                       res |-> Progress(Lookup(jobs, [uuid |-> pollJob.job_id]))]]
    /\ UNCHANGED <<server, pollJob, interval, promise, shown>>

\* a request gets no response: network error, or the 30 s timeout (line 10)
RequestFails(r) ==
    /\ requests[r] = Sent
    /\ requests' = [requests EXCEPT ![r] = Failed]
    /\ UNCHANGED <<server, pollJob, interval, promise, shown>>

\* getProgress throws (lines 14-28, 127): axios rejects a request without a
\* response and a response whose status is not 2xx, the interceptor rethrows
Thrown(request) ==
    \/ request = Failed
    \/ request.st = "answered" /\ request.res.code # 200

\* resolve() and reject() of a promise: no effect once it is settled
Settle(p, outcome) == IF p = "pending" THEN outcome ELSE p

\* the interval callback after its await (lines 215-228), for one request;
\* answers of requests in flight at once may arrive in any order
OnAnswer(r) ==
    /\ requests[r].st \in {"answered", "failed"}
    /\ requests' = [requests EXCEPT ![r] = Free]
    /\ IF Thrown(requests[r])
       THEN /\ interval' = FALSE
            /\ promise' = Settle(promise, "rejected")
            /\ shown' = shown
       ELSE LET progress == requests[r].res IN
            /\ shown' = progress.status
            /\ IF progress.status = "completed"
               THEN interval' = FALSE /\ promise' = Settle(promise, "resolved")
               ELSE IF progress.status = "error"
               THEN interval' = FALSE /\ promise' = Settle(promise, "rejected")
               ELSE UNCHANGED <<interval, promise>>
    /\ UNCHANGED <<server, pollJob>>

\* a queued process event or the 1000 ms settling timer of job j is pending
Pending(j) == proc[j] \in {"exited", "failed", "errored", "settling"}

\* time passes by one step of the modelled clock; the event loop runs what is
\* queued or due (process events, the settling timer) well within one step,
\* so the clock moves on only when nothing is pending and no sweep is due
Tick ==
    /\ Ready
    /\ now < MaxTicks * TickMs
    /\ now < nextSweep
    /\ \A j \in JobIds : ~Pending(j)
    /\ now' = now + TickMs
    /\ UNCHANGED <<alive, nextSweep, jobs, downloads, proc>>
    /\ UNCHANGED client

Next ==
    \/ DownloadRejected
    \/ DownloadAccepted
    \/ \E jobId \in JobIds :
         \/ ToolWritesFile(jobId)
         \/ ToolExits(jobId)
         \/ OnStdoutData(jobId)
         \/ OnError(jobId)
         \/ OnClose(jobId)
         \/ SettleTimer(jobId)
    \/ \E jobId \in ParamIds : GetProgress(jobId)
    \/ Sweep
    \/ Tick

Spec == Init /\ [][Next]_vars

\* Node delivers every queued event and runs every due timer
FairSpec ==
    /\ Spec
    /\ \A jobId \in JobIds :
         /\ WF_vars(OnError(jobId))
         /\ WF_vars(OnClose(jobId))
         /\ WF_vars(SettleTimer(jobId))
    /\ WF_vars(Sweep)
    /\ WF_vars(Tick)

\* the client polling one job while the server runs the jobs' processes; the
\* poll interval (1 s) is far below one step of the modelled clock, so the
\* clock stands still
PollNext ==
    \/ DownloadAccepted
    \/ \E jobId \in JobIds :
         \/ ToolWritesFile(jobId)
         \/ ToolExits(jobId)
         \/ OnStdoutData(jobId)
         \/ OnError(jobId)
         \/ OnClose(jobId)
         \/ SettleTimer(jobId)
    \/ PollProgress
    \/ \E r \in RequestSlots :
         \/ PollTick(r)
         \/ Answer(r)
         \/ RequestFails(r)
         \/ OnAnswer(r)

PollSpec == Init /\ [][PollNext]_vars

TypeOK ==
    /\ alive \in BOOLEAN
    /\ now \in 0..(MaxTicks * TickMs)
    /\ proc \in [JobIds -> ProcStates]
    /\ downloads \subseteq FileNames
    /\ \A j \in JobIds :
         jobs[j] # NoJob =>
           /\ jobs[j].status \in {"downloading", "completed", "error"}
           /\ jobs[j].file \in FileNames \cup {NULL}
           /\ jobs[j].createdAt \in 0..now

\* ------------------------------------------------------------ vocabulary
Created(j) == proc[j] # "none"
Present(j) == jobs[j] # NoJob
\* the step is a run of the setInterval callback
SweepStep == nextSweep' # nextSweep
\* an answer of get-progress after which a poller stops
Terminal(answer) ==
    \/ answer.code = 404
    \/ answer.code = 200 /\ answer.status \in {"completed", "error"}
\* the process of job j has terminated: it failed to launch or it exited
Terminated(j) == proc[j] \in ProcStates \ {"none", "running"}

\* ---------------------------------------------------------------- claims

\* C1: a job id returned by an accepted submit-download is queryable right
\* after the call, before any callback of its process has run, and that query
\* answers status=downloading, progress=0.
C1_SubmittedJobQueryable ==
    [][\A j \in JobIds :
         (~Created(j) /\ Created(j)') =>
            Progress(jobs'[j]) = [code |-> 200, success |-> TRUE,
                                  status |-> "downloading", progress |-> 0]]_vars

\* a job was submitted and none of its callbacks has run yet
C1_Witness ==
    \E j \in JobIds :
       /\ proc[j] \in {"running", "failed"}
       /\ Progress(jobs[j]).code = 200
       /\ Progress(jobs[j]).status = "downloading"
       /\ Progress(jobs[j]).progress = 0

\* C2: once the process of a job has terminated (launch failure, non-zero
\* exit or exit 0), get-progress eventually gives a terminal answer for it:
\* completed, error, or not-found after the sweep; the job does not stay in
\* status=downloading for ever.
C2_TerminatedJobSettles ==
    \A j \in JobIds : Terminated(j) ~> Terminal(Progress(jobs[j]))

\* C3: the status of a record only moves forward: once completed or error it
\* never becomes downloading again and never changes between completed and
\* error, whatever event comes next.
C3_StatusNeverRegresses ==
    [][\A j \in JobIds :
         (Present(j) /\ Present(j)' /\ jobs[j].status \in {"completed", "error"}) =>
            jobs'[j].status = jobs[j].status]_vars

\* a finalized record with a callback of its process still to come
C3_Witness ==
    \E j \in JobIds : Present(j) /\ jobs[j].status = "error" /\ proc[j] = "errored"

\* C4: when the 'close' listener runs with a non-zero code while the record
\* exists, the record has status=error and the execution-failure reason when
\* the listener returns; afterwards no event changes any field of the record,
\* and the record disappears only in a sweep.
C4_NonZeroExitIsFinal ==
    [][\A j \in JobIds :
         /\ (proc[j] \in {"exited", "errored"} /\ proc'[j] = "done" /\ Present(j)) =>
               /\ Present(j)'
               /\ jobs'[j].status = "error"
               /\ jobs'[j].error = "Download failed"
         /\ (proc[j] = "done" /\ Present(j)) =>
               /\ jobs[j].status = "error" /\ jobs[j].error = "Download failed"
               /\ \/ jobs'[j] = jobs[j]
                  \/ ~Present(j)' /\ SweepStep]_vars

\* a record finalized by a non-zero exit after progress had been reported
C4_Witness ==
    \E j \in JobIds :
       /\ proc[j] = "done" /\ Present(j)
       /\ jobs[j].error = "Download failed" /\ jobs[j].progress > 0

\* no file of job j is in the download directory
NoFileOf(j) == \A f \in downloads : ~startsWith(f, j)
\* the step is the settling callback of job j
SettleStep(j) == proc[j] = "settling" /\ proc'[j] \in {"settled", "scanfailed"}

\* C5, as stated: if the process exits with code 0 and the download directory
\* holds no file beginning with the job id when the settling delay elapses,
\* the job ends with status=error and the file-not-found reason, and it is
\* never seen as completed.
C5_NoFileMeansFileNotFound ==
    [][\A j \in JobIds :
         /\ (SettleStep(j) /\ NoFileOf(j)) =>
               /\ Present(j)'
               /\ Progress(jobs'[j]).status = "error"
               /\ Progress(jobs'[j]).error = "File not found after download"
         /\ (Present(j) /\ Present(j)' /\ jobs[j].error = "File not found after download") =>
               Progress(jobs'[j]).status = "error"]_vars

\* C5, amended: if the process exits with code 0 and, when the settling delay
\* elapses, the scan of the download directory succeeds and finds no file
\* beginning with the job id, then the record, if it has not been swept, ends
\* with status=error and the file-not-found reason (with the
\* failed-to-locate reason when the scan itself fails); in every case the job
\* is never seen as completed.
C5_NoFileMeansError ==
    [][\A j \in JobIds :
         /\ (SettleStep(j) /\ NoFileOf(j) /\ Present(j)) =>
               /\ Present(j)'
               /\ Progress(jobs'[j]).status = "error"
               /\ Progress(jobs'[j]).error =
                     IF proc'[j] = "settled" THEN "File not found after download"
                     ELSE "Failed to locate downloaded file"
         /\ (SettleStep(j) /\ NoFileOf(j) /\ ~Present(j)) => ~Present(j)'
         /\ (Present(j) /\ Present(j)' /\ jobs[j].error = "File not found after download") =>
               Progress(jobs'[j]).status = "error"]_vars

\* the settling callback of a job scanned the directory and found no file
C5_Witness ==
    \E j \in JobIds :
       /\ proc[j] = "settled" /\ Present(j)
       /\ jobs[j].status = "error"
       /\ jobs[j].error = "File not found after download"

\* C6: while a job is not in a terminal status, the progress reported by
\* get-progress never decreases from one query to the next.
C6_ProgressNonDecreasing ==
    [][\A j \in JobIds :
         (Present(j) /\ Present(j)' /\ jobs'[j].status = "downloading") =>
            Progress(jobs'[j]).progress >= Progress(jobs[j]).progress]_vars

\* the step changes the job map and nothing else, as a stdout listener does
DataStep ==
    /\ jobs' # jobs
    /\ UNCHANGED <<alive, now, nextSweep, downloads, proc>>

\* C7: a progress update of an output line changes only the progress field
\* of its own job's record; status, file, error and createdAt stay as they
\* are, also when the record it meets is already finalized.
C7_UpdateChangesProgressOnly ==
    /\ [][DataStep =>
            \E j \in JobIds :
               /\ Present(j)
               /\ jobs' = [jobs EXCEPT ![j] = [jobs[j] EXCEPT !.progress = jobs'[j].progress]]]_vars
    /\ [](\A j \in JobIds, line \in Lines :
            Present(j) =>
               UpdateProgress(jobs[j], line) =
                  [jobs[j] EXCEPT !.progress = UpdateProgress(jobs[j], line).progress])

\* one job got a progress update while another record is already finalized
C7_Witness ==
    /\ \E j \in JobIds :
          Present(j) /\ jobs[j].status = "downloading" /\ jobs[j].progress > 0
    /\ \E k \in JobIds : Present(k) /\ jobs[k].status \in {"completed", "error"}

\* C8: a job created at time T is in the job map at every time before
\* T + JOB_CLEANUP_TIME and is gone, with its recorded file, once the sweeps
\* due by T + JOB_CLEANUP_TIME + SWEEP_PERIOD have run, whatever its status.
C8_RetentionWindow ==
    /\ [][\A j \in JobIds :
            (Present(j) /\ ~Present(j)') =>
               /\ now >= jobs[j].createdAt + JOB_CLEANUP_TIME
               /\ jobs[j].file # NULL => jobs[j].file \notin downloads']_vars
    /\ [](\A j \in JobIds :
            (Present(j) /\ now >= jobs[j].createdAt + JOB_CLEANUP_TIME + SWEEP_PERIOD) =>
               alive /\ nextSweep = now)

\* C9: a record leaves the job map only in a sweep and only when
\* now - createdAt is strictly greater than the retention window; its
\* recorded file is then no longer in the download directory.
C9_OnlySweepRemoves ==
    [][\A j \in JobIds :
         (Present(j) /\ ~Present(j)') =>
            /\ SweepStep
            /\ now - jobs[j].createdAt > JOB_CLEANUP_TIME
            /\ jobs[j].file # NULL => jobs[j].file \notin downloads']_vars

\* the record of a job whose settling callback had run was removed by a sweep
C9_Witness ==
    \E j \in JobIds : proc[j] = "settled" /\ ~Present(j) /\ alive

\* C10: a failing file deletion does not leave the sweep callback: the
\* sweep still removes every other expired record and later sweeps run.
C10_SweepSurvivesUnlinkFailure ==
    [][SweepStep =>
         /\ alive'
         /\ \A j \in JobIds :
              (Present(j) /\ Expired(jobs[j], now)
                 /\ ~(jobs[j].file # NULL /\ jobs[j].file \in downloads)) =>
                 ~Present(j)']_vars

\* the not-found response of get-progress
NotFoundAnswer == [code |-> 404, success |-> FALSE, error |-> "Job not found"]
\* the job map holds a record under the id
HasRecord(jobId) == "uuid" \in DOMAIN jobId /\ Present(jobId.uuid)

\* C11: a get-progress query for an id that was never created, or whose
\* record the sweeper has removed, gets the not-found response (the query
\* itself never changes the job map).
C11_AbsentIdNotFound ==
    \A jobId \in ParamIds :
       ~HasRecord(jobId) => Progress(Lookup(jobs, jobId)) = NotFoundAnswer

\* the step is an event of the process of job a: an output line, the launch
\* error, the exit or the settling timer
EventOf(a) == OnStdoutData(a) \/ OnError(a) \/ OnClose(a) \/ SettleTimer(a)

\* C12: a submission gets an id distinct from that of every job in flight,
\* so no step that changes the record or the process of a job in flight is a
\* submission; and every output, error, exit and settling-timer event of one
\* job leaves the record of every other job unchanged, so no step that
\* changes the record of job b is an event of another job a.
C12_JobsIsolated ==
    [][/\ (\E b \in JobIds :
              Created(b) /\ (jobs'[b] # jobs[b] \/ proc'[b] # proc[b])) =>
             ~DownloadAccepted
       /\ \A b \in JobIds :
             jobs'[b] # jobs[b] => \A a \in JobIds \ {b} : ~EventOf(a)]_vars

\* two jobs in flight at once, one of them with a progress update
C12_Witness ==
    \E a, b \in JobIds :
       /\ a # b /\ proc[a] = "running" /\ proc[b] = "running"
       /\ Present(a) /\ Present(b)
       /\ jobs[a].progress > 0 /\ jobs[b].progress = 0

\* the request bodies the validation has to reject: url or format selector
\* missing, url not http/https, media type given but not video or audio
InvalidBodies ==
    {req \in [url : Urls, format_id : FormatIds, type : Types] :
        \/ req.url = Undefined
        \/ req.format_id = Undefined
        \/ req.url \notin {"http://host/v", "https://host/v"}
        \/ req.type \in {"image"}}

\* C13: a submit-download call with an invalid body creates no record,
\* starts no process and leaves the job map as it was.
C13_RejectedSubmitNoEffect ==
    [][~UNCHANGED <<jobs, proc, downloads>> =>
          \A req \in InvalidBodies : ~Download(req)]_vars

\* a job exists while invalid bodies can still be submitted
C13_Witness ==
    /\ \E j \in JobIds : Present(j) /\ proc[j] = "running"
    /\ \E j \in JobIds : ~Created(j)
    /\ \E req \in InvalidBodies : ENABLED Download(req)

\* C14: once the sweeper has removed the record of a job whose process is
\* still running or whose settling timer is pending, every later callback of
\* that job (output line, launch error, exit, settling timer) leaves the job
\* map as it is: it does not throw and does not create the record again.
C14_CallbackOnSweptJobNoOp ==
    [][\A a \in JobIds :
         (EventOf(a) /\ ~Present(a)) => (jobs' = jobs /\ alive')]_vars

\* the 'close' event of a job arrived after the sweeper had removed its record
C14_Witness ==
    \E j \in JobIds : proc[j] = "returned" /\ ~Present(j) /\ alive

\* C15: when the process of a job fails to start, the record gets
\* status=error with the launch-failure reason, and that reason is what
\* get-progress reports for as long as the record exists: no later event
\* replaces it.
C15_LaunchFailureReasonKept ==
    [][\A j \in JobIds :
         /\ (proc[j] = "failed" /\ proc'[j] = "errored" /\ Present(j)) =>
               /\ Progress(jobs'[j]).status = "error"
               /\ Progress(jobs'[j]).error = "Download process failed"
         /\ (Present(j) /\ Present(j)' /\ jobs[j].error = "Download process failed") =>
               Progress(jobs'[j]).error = "Download process failed"]_vars

\* C16: in every reachable state and for every record, file is set exactly
\* when status=completed and error is set only when status=error; a record
\* with status=downloading has neither, and no record has both.
C16_FieldsMatchStatus ==
    \A j \in JobIds :
       Present(j) =>
          /\ jobs[j].file # NULL <=> jobs[j].status = "completed"
          /\ jobs[j].error # Undefined => jobs[j].status = "error"
          /\ jobs[j].status = "downloading" =>
                jobs[j].file = NULL /\ jobs[j].error = Undefined
          /\ ~(jobs[j].file # NULL /\ jobs[j].error # Undefined)

\* one record completed with its file, another in error after a failed scan
C16_Witness ==
    \E a, b \in JobIds :
       /\ Present(a) /\ jobs[a].status = "completed" /\ jobs[a].file # NULL
       /\ Present(b) /\ jobs[b].status = "error"
       /\ jobs[b].error = "Failed to locate downloaded file"

\* C17: in every reachable state the file named by a completed record is in
\* the download directory, so the file reference that get-progress returns
\* for it resolves: the sweeper never deletes the file of a completed job and
\* leaves its record.
C17_CompletedFileExists ==
    \A j \in JobIds :
       (Present(j) /\ Progress(jobs[j]).status = "completed") =>
          /\ jobs[j].file \in downloads
          /\ Progress(jobs[j]).file_url = <<"http://localhost:3000/downloads/", jobs[j].file>>

\* a sweep met an expired completed record and left it, with its file
C17_Witness ==
    \E j \in JobIds :
       /\ Present(j) /\ jobs[j].status = "completed"
       /\ Expired(jobs[j], now) /\ nextSweep > now
       /\ jobs[j].file \in downloads

\* the record of job j is completed, with progress 100 and a file of the job
\* that is in the download directory
CompletedWithFile(job, j, dir) ==
    /\ job.status = "completed"
    /\ job.progress = 100
    /\ job.file \in dir /\ startsWith(job.file, j)

\* C18, as stated: if the process exits with code 0 and a file beginning
\* with the job id exists when the settling delay elapses, the record becomes
\* status=completed, progress=100, file=that file; and whenever the record
\* is completed afterwards its progress is 100.
C18_FileMeansCompleted ==
    /\ [][\A j \in JobIds :
            (SettleStep(j) /\ ~NoFileOf(j)) =>
               Present(j)' /\ CompletedWithFile(jobs'[j], j, downloads)]_vars
    /\ [](\A j \in JobIds :
            (Present(j) /\ jobs[j].status = "completed") => jobs[j].progress = 100)

\* C18, amended: if the process exits with code 0 and, when the settling
\* delay elapses, the record still exists and the scan of the download
\* directory succeeds and lists a file beginning with the job id, the record
\* becomes status=completed, progress=100, file=such a file (when the scan
\* throws, the record gets status=error instead; a swept record stays
\* absent); and whenever a record is completed its progress is 100.
C18_FoundFileMeansCompleted ==
    /\ [][\A j \in JobIds :
            /\ (SettleStep(j) /\ ~NoFileOf(j) /\ Present(j) /\ proc'[j] = "settled") =>
                  Present(j)' /\ CompletedWithFile(jobs'[j], j, downloads)
            /\ (SettleStep(j) /\ ~NoFileOf(j) /\ Present(j) /\ proc'[j] = "scanfailed") =>
                  Present(j)' /\ jobs'[j].status = "error"
            /\ (SettleStep(j) /\ ~Present(j)) => ~Present(j)']_vars
    /\ [](\A j \in JobIds :
            (Present(j) /\ jobs[j].status = "completed") => jobs[j].progress = 100)

\* the settling callback found the file of a job and completed its record
C18_Witness ==
    \E j \in JobIds :
       /\ proc[j] = "settled" /\ Present(j)
       /\ CompletedWithFile(jobs[j], j, downloads)

\* C19: a step that takes a record into status=error (launch failure,
\* non-zero exit, file not found after exit 0, failed directory scan) changes
\* only status and error: the progress stored in the record and reported by
\* get-progress is the one the record had, the last value parsed from the
\* output.
C19_FailureKeepsProgress ==
    [][\A j \in JobIds :
         (Present(j) /\ Present(j)' /\ jobs[j].status # "error"
            /\ jobs'[j].status = "error") =>
            /\ jobs'[j] = [jobs[j] EXCEPT !.status = "error", !.error = jobs'[j].error]
            /\ Progress(jobs'[j]).progress = jobs[j].progress]_vars

\* C20: no file that the process of a job wrote into the download directory
\* outlives the retention of the job: the sweeps delete every file whose name
\* begins with the job id, so once the record of a job has been swept no file
\* of the job is in the directory, also when the job was swept with its
\* process running or its settling timer pending, or had ended in error.
C20_NoFileOutlivesRecord ==
    \A j \in JobIds : (Created(j) /\ ~Present(j)) => NoFileOf(j)

\* the promise of pollProgress is settled
Settled == promise \in {"resolved", "rejected"}
\* the step hands the answer of request r to onProgress (line 216)
OnProgressCalled(r) == OnAnswer(r) /\ ~Thrown(requests[r])

\* C21: pollProgress settles exactly once, resolving on the first completed
\* answer and rejecting on the first error answer or failed request; once it
\* has settled it sends no further get-progress request and never calls
\* onProgress again, also when several polls are in flight at once.
C21_PollSettlesOnceThenSilent ==
    [][/\ Settled => promise' = promise
       /\ \A r \in RequestSlots :
             /\ (OnAnswer(r) /\ promise = "pending" /\ promise' = "resolved") =>
                   ~Thrown(requests[r]) /\ requests[r].res.status = "completed"
             /\ (OnAnswer(r) /\ promise = "pending" /\ promise' = "rejected") =>
                   Thrown(requests[r]) \/ requests[r].res.status = "error"
             /\ Settled => ~PollTick(r)
             /\ Settled => ~OnProgressCalled(r)]_vars
====
